---- MODULE Spec2Model ----
(***************************************************************************)
(* A model of the spin-rust-sdk async core:                                *)
(*   crates/executor/src/lib.rs  WAKERS, push_waker, run                   *)
(*   src/http/executor.rs        outgoing_body (the sink), incoming_body   *)
(*                               (the input stream), outgoing_request_send *)
(*                               (the send bridge)                         *)
(*   src/http.rs                 into_body, set_with_body                  *)
(* run drives one root future.  The root future is one of a few programs:  *)
(* an arbitrary future that registers wait handles as it likes             *)
(* ("abstract"), a task that uses one sink ("sink"), a task that pulls     *)
(* one input stream ("stream"), a task that makes and polls one send       *)
(* bridge ("bridge"), into_body, set_with_body.  The host (wasi:io,        *)
(* wasi:http) is the environment: every host call returns any result its   *)
(* interface allows.                                                       *)
(***************************************************************************)
EXTENDS Integers, Sequences, FiniteSets, TLC

\* ------------------------------------------------------------- bounds
\* Polls of the root future in one run; the last one must complete.
MaxPolls == 3
\* Wait handles the abstract root future registers in one poll.
MaxReg == 2
\* Length of a chunk handed to the sink.
MaxLen == 3
\* Largest ordinary capacity check-write reports.
MaxCap == 2
\* Sends the sink task issues.
MaxSends == 2
\* Host reads the stream task causes.
MaxReads == 4
\* Length of a buffer a host read returns.
MaxBuf == 1
\* Polls of the send bridge's future.
MaxBridgePolls == 3
\* Entries another caller of push_waker has in the registry at one time.
MaxOtherPushes == 1

Bytes == {1, 2}
Values == {"v1", "v2"}
RootKinds == {"abstract", "sink", "stream", "bridge", "into_body", "set_with_body",
              "two_streams"}
\* The programs that send through a sink made by outgoing_body.
SinkRoots == {"sink", "set_with_body"}
\* The programs in which a sink's send is polled.
SendRoots == SinkRoots \cup {"http_send"}
\* The programs that await the future made by outgoing_request_send.
BridgeRoots == {"bridge", "http_send"}
\* The programs that own a stream made by incoming_body.
StreamRoots == {"stream", "into_body"}
AbstractPollables == {"p1", "p2"}

Min(a, b) == IF a <= b THEN a ELSE b

RECURSIVE SeqsUpTo(_, _)
SeqsUpTo(S, n) ==
  IF n = 0 THEN {<<>>}
  ELSE LET shorter == SeqsUpTo(S, n - 1)
       IN  shorter \cup {Append(s, x) : s \in {t \in shorter : Len(t) = n - 1}, x \in S}

\* The chunks handed to a sink.  The sink copies bytes and never looks at
\* their values, so chunks are taken up to a renaming of the bytes: the first
\* byte of a non-empty chunk is 1.
Chunks == {c \in SeqsUpTo(Bytes, MaxLen) : c = <<>> \/ c[1] = 1}
Buffers == SeqsUpTo(Bytes, MaxBuf)

Errs == {"e1", "e2"}

\* StreamError: Closed, or LastOperationFailed(error).
Closed == [kind |-> "Closed", err |-> "none"]
LastOperationFailed(e) == [kind |-> "LastOperationFailed", err |-> e]
StreamErrors == {Closed} \cup {LastOperationFailed(e) : e \in Errs}
\* Ok(()) of a Result<(), StreamError>, and "no result yet".
OkRes == [kind |-> "Ok", err |-> "none"]
NoRes == [kind |-> "none", err |-> "none"]
NoEnd == [call |-> "none", res |-> NoRes]

\* Result<IncomingResponse, ErrorCode>, and "no result".
Responses == {"resp1"}
ErrorCodes == {"c1", "c2"}
RespOk(r) == [kind |-> "Ok", val |-> r]
RespErr(c) == [kind |-> "Err", val |-> c]
NoResp == [kind |-> "none", val |-> "none"]
HostResults == {RespOk(r) : r \in Responses} \cup {RespErr(c) : c \in ErrorCodes}
\* Ok(FutureIncomingResponse) of outgoing_handler::handle.
SubmitOk == [kind |-> "Ok", val |-> "future"]

\* Result<O, SendError> of http::send, and "not returned".
SendOk(v) == [kind |-> "Ok", err |-> NoRes, val |-> v]
SendErrIo(e) == [kind |-> "Io", err |-> e, val |-> "none"]
SendErrHttp(c) == [kind |-> "Http", err |-> NoRes, val |-> c]
SendErrResponseConversion == [kind |-> "ResponseConversion", err |-> NoRes, val |-> "none"]
NoSend == [kind |-> "none", err |-> NoRes, val |-> "none"]

\* What one poll of the bridge's future did.
BridgePending == [kind |-> "Pending", res |-> NoResp]
BridgeReady(r) == [kind |-> "Ready", res |-> r]
NoBridgePoll == [subs |-> 0, regs |-> 0, out |-> [kind |-> "none", res |-> NoResp]]

\* Result<Vec<u8>, streams::Error> of into_body, and "not returned".
BodyOk(b) == [kind |-> "Ok", body |-> b, err |-> "none"]
BodyErr(e) == [kind |-> "Err", body |-> <<>>, err |-> e]
NoBody == [kind |-> "none", body |-> <<>>, err |-> "none"]

VARIABLES
  root,          \* which program the root future is
  userPc,        \* the root task: "idle", "send_created" (a send's future
                 \* exists, not polled yet), "send_running" (inside its
                 \* poll), "send_waiting" (its poll returned Pending),
                 \* "pulling" (a pull returned Pending), "returned"
  \* ---- run (crates/executor/src/lib.rs)
  runPc,         \* position of run: "poll", "inpoll", "polled", "blocked",
                 \* "woken", "done", "aborted"
  abortWhy,      \* "none", "assert" (run's assertion), "panic" (in the future)
  polls,         \* polls of the root future so far
  pollOut,       \* what the last poll of the root future returned
  regsThisPoll,  \* push_waker calls made during the current/last poll
  WAKERS,        \* the registry: a sequence of (pollable, waker) entries
  wakers,        \* run's local: the drained registry
  ready,         \* run's local: ready[i] for the drained entries
  result,        \* what run returned
  lock,          \* the registry's Mutex: "free" or "held"
  ioSince,       \* io::poll::poll calls since the last poll of the root future
  firedLast,     \* entries the last io::poll::poll call reported ready
  fired,         \* entries whose waker.wake() the last iteration called
  \* ---- the sink (outgoing_body)
  sinkSt,        \* the unfold sink: "None", "Value", "Future", "Empty", "Dropped"
  chunk,         \* the chunk of the current (or last) send
  offset,        \* the send's offset
  flushing,      \* the send's flushing flag
  outPair,       \* Outgoing.0: "Some" or "None"
  outStream,     \* the OutputStream handle: "held" or "released"
  outFinish,     \* the OutgoingBody::finish calls: the trailers of each
  outFinishRes,  \* what the host returned to the last OutgoingBody::finish
  outFinishSaw,  \* the stream handle as OutgoingBody::finish found it: "held", "released"
  hostOut,       \* the host's output stream: "open" or "closed"
  writes,        \* the host write calls of the current send
  sends,         \* sends started
  sendRes,       \* the result of the send that completed last, "none" while
                 \* none has or one is in progress
  sendEnd,       \* the host call and result that completed it
  flushes,       \* flush requests of the current send
  closes,        \* closes of the sink that completed
  outDropAt,     \* where the sink was dropped
  unreported,    \* bytes the host's writes accepted, over all sends, less
                 \* the bytes of the chunks whose send was reported complete
  completions,   \* sends that completed, with Ok or with an error
  lastCw,        \* what the send's last check_write returned: "none", "zero"
                 \* (Ok(0)), "some" (Ok(count), count > 0), "err"
  \* ---- the input stream (incoming_body)
  strSt,         \* "None", "Alive", "Dropped"
  inPair,        \* Incoming.0: "Some" or "None"
  inStream,      \* the InputStream handle: "held" or "released"
  inFinish,      \* IncomingBody::finish calls
  inFinishSaw,   \* the stream handle as IncomingBody::finish found it
  hostIn,        \* the host's input stream: "open" or "closed"
  reads,         \* the results of the host reads so far
  yielded,       \* the items the stream yielded so far
  inDropAt,      \* where the stream was dropped
  \* ---- the send bridge (outgoing_request_send)
  brSt,          \* the bridge's future: "None", "Made", "Dropped"
  handleCalls,   \* calls of outgoing_handler::handle
  response,      \* the closure's capture: what handle returned
  hostResp,      \* the host's future response: "none", "waiting", "taken"
  hostVal,       \* the result the host handed out
  brSubs,        \* subscribe calls on the host's future response
  brPolls,       \* polls of the bridge's future
  brLast,        \* the last poll: its subscribe calls, registrations, outcome
  \* ---- into_body
  body,          \* its local buffer
  ibRes,         \* what it returned
  \* ---- set_with_body
  outparam,      \* the ResponseOutparam: "unset" or "set"
  swbRes,        \* what it returned
  \* ---- a task that pulls two streams made by incoming_body at once
  pullSt,        \* per stream, its pull: "idle", "waiting" (returned Pending),
                 \* "done" (returned an element), "dropped" (dropped suspended)
  inStreams,     \* per stream, its InputStream handle: "held" or "released"
  nextPull,      \* the pull the task polls next in the current poll of the root
  \* ---- http::send with a buffered body
  hsRes          \* what it returned

runVars == <<runPc, abortWhy, polls, pollOut, regsThisPoll, WAKERS, wakers,
             ready, result, lock, ioSince, firedLast, fired>>
sinkVars == <<sinkSt, chunk, offset, flushing, outPair, outStream, outFinish, outFinishRes, outFinishSaw,
              hostOut, writes, sends, sendRes, sendEnd, flushes, closes, outDropAt,
              unreported, completions, lastCw>>
strVars == <<strSt, inPair, inStream, inFinish, inFinishSaw, hostIn, reads, yielded, inDropAt>>
brVars == <<brSt, handleCalls, response, hostResp, hostVal, brSubs, brPolls, brLast>>
ibVars == <<body, ibRes>>
swbVars == <<outparam, swbRes>>
twoVars == <<pullSt, inStreams, nextPull>>
rootVars == <<root, brVars, ibVars, swbVars, twoVars, hsRes>>
progVars == <<rootVars, userPc, sinkVars, strVars>>

vars == <<rootVars, userPc, runVars, sinkVars, strVars>>

NoPoll == [kind |-> "none", val |-> "none"]
Pending == [kind |-> "Pending", val |-> "none"]
Ready(v) == [kind |-> "Ready", val |-> v]

Entry(p) == [pollable |-> p, waker |-> "DummyWaker"]

\* ------------------------------------------------------------ registry

\* The lock guards of lines 27, 48 and 71 are temporaries of their statement:
\* the Mutex is free again when the statement ends.  Mutant: the guard of
\* the drain is bound to a local of the Pending arm and lives on.
LockAfterTakeHeld == "held"
LockAfterPush == "free"
LockAfterTake == "free"
LockAfterStore == "free"

\* Mutant: push_waker appends the entry twice.
push_wakerTwice(reg, pollable) == Append(Append(reg, Entry(pollable)), Entry(pollable))

\* push_waker: append one entry to the registry.
push_waker(reg, pollable) == Append(reg, Entry(pollable))

\* ------------------------------------------------------------ run loop

InitRun ==
  /\ runPc = "poll"
  /\ abortWhy = "none"
  /\ polls = 0
  /\ pollOut = NoPoll
  /\ regsThisPoll = 0
  /\ WAKERS = <<>>
  /\ wakers = <<>>
  /\ ready = <<>>
  /\ result = "none"
  /\ lock = "free"
  /\ ioSince = 0
  /\ firedLast = 0
  /\ fired = <<>>

\* outgoing_body, lines 32-33: the sink holds Some((stream, body)).
InitSink ==
  /\ sinkSt = IF root = "sink" THEN "Value" ELSE "None"
  /\ chunk = <<>>
  /\ offset = 0
  /\ flushing = FALSE
  /\ outPair = IF root = "sink" THEN "Some" ELSE "None"
  /\ outStream = IF root = "sink" THEN "held" ELSE "none"
  /\ outFinish = <<>>
  /\ outFinishRes = "none"
  /\ outFinishSaw = "none"
  /\ hostOut = "open"
  /\ writes = <<>>
  /\ sends = 0
  /\ sendRes = NoRes
  /\ sendEnd = NoEnd
  /\ flushes = 0
  /\ closes = 0
  /\ outDropAt = "none"
  /\ unreported = 0
  /\ completions = 0
  /\ lastCw = "none"

\* incoming_body, lines 128-129: the stream holds Some((stream, body)).
InitStream ==
  /\ strSt = IF root \in StreamRoots THEN "Alive" ELSE "None"
  /\ inPair = IF root \in StreamRoots THEN "Some" ELSE "None"
  /\ inStream = IF root \in StreamRoots THEN "held" ELSE "none"
  /\ inFinish = 0
  /\ inFinishSaw = "none"
  /\ hostIn = "open"
  /\ reads = <<>>
  /\ yielded = <<>>
  /\ inDropAt = "none"

\* No bridge exists before the task calls outgoing_request_send.
InitBridge ==
  /\ brSt = "None"
  /\ handleCalls = 0
  /\ response = NoResp
  /\ hostResp = "none"
  /\ hostVal = NoResp
  /\ brSubs = 0
  /\ brPolls = 0
  /\ brLast = NoBridgePoll

\* into_body, line 835: let mut body = Vec::new().
InitIntoBody ==
  /\ body = <<>>
  /\ ibRes = NoBody

\* set_with_body has not been called.
InitSetWithBody ==
  /\ outparam = "unset"
  /\ swbRes = NoRes

\* Two streams made by incoming_body (lines 128-129), none pulled yet.
InitTwoStreams ==
  /\ pullSt = [i \in 1..2 |-> IF root = "two_streams" THEN "idle" ELSE "none"]
  /\ inStreams = [i \in 1..2 |-> IF root = "two_streams" THEN "held" ELSE "none"]
  /\ nextPull = IF root = "two_streams" THEN 1 ELSE 0

\* http::send has not returned.
InitHttpSend == hsRes = NoSend

\* The state after construction, whatever program the root future is.
InitProgram ==
  /\ userPc = "idle"
  /\ InitRun
  /\ InitSink
  /\ InitStream
  /\ InitBridge
  /\ InitIntoBody
  /\ InitSetWithBody
  /\ InitTwoStreams
  /\ InitHttpSend

Init ==
  /\ root \in RootKinds
  /\ InitProgram

\* run(http::send(request)) with a request that has a buffered body.
HttpSendInit ==
  /\ root = "http_send"
  /\ InitProgram

\* run, line 44: the loop polls the root future.
RunPoll ==
  /\ runPc = "poll"
  /\ runPc' = "inpoll"
  /\ polls' = polls + 1
  /\ regsThisPoll' = 0
  /\ pollOut' = NoPoll
  /\ ioSince' = 0
  /\ firedLast' = 0
  /\ fired' = <<>>
  /\ UNCHANGED <<progVars, abortWhy, WAKERS, wakers, ready, result, lock>>

\* The abstract root future: one poll registers any wait handles and returns
\* Pending or Ready.  It completes at the latest at its MaxPolls-th poll.
RECURSIVE PushAll(_, _)
PushAll(reg, ps) ==
  IF ps = <<>> THEN reg ELSE PushAll(push_waker(reg, Head(ps)), Tail(ps))

AbstractPoll ==
  /\ root = "abstract"
  /\ runPc = "inpoll"
  /\ \E ps \in SeqsUpTo(AbstractPollables, MaxReg) :
       /\ ps # <<>> => lock = "free"
       /\ lock' = IF ps # <<>> THEN LockAfterPush ELSE lock
       /\ WAKERS' = PushAll(WAKERS, ps)
       /\ regsThisPoll' = Len(ps)
  /\ \/ /\ polls < MaxPolls
        /\ pollOut' = Pending
     \/ \E v \in Values : pollOut' = Ready(v)
  /\ runPc' = "polled"
  /\ UNCHANGED <<progVars, abortWhy, polls, wakers, ready, result, ioSince, firedLast, fired>>

\* Mutants of the assertion: one that looks at the registrations of this poll
\* only, one that asserts nothing.
DrainAssertThisPoll(drained) == regsThisPoll > 0
DrainAssertNothing(drained) == TRUE

\* The assertion of line 50 on the drained registry.
DrainAssertOk(drained) == drained # <<>>

\* Mutant: on Pending run polls the future again without blocking.
RunPendingRepolls ==
  /\ runPc = "polled"
  /\ pollOut.kind = "Pending"
  /\ runPc' = "poll"
  /\ UNCHANGED <<progVars, abortWhy, polls, pollOut, regsThisPoll, WAKERS, wakers,
                 ready, result, lock, ioSince, firedLast, fired>>

\* run, lines 45-50: on Pending, take the registry and assert it is not empty.
RunPending ==
  /\ runPc = "polled"
  /\ pollOut.kind = "Pending"
  /\ lock = "free"
  /\ lock' = LockAfterTake
  /\ wakers' = WAKERS
  /\ WAKERS' = <<>>
  /\ IF DrainAssertOk(WAKERS)
       THEN /\ runPc' = "blocked"
            /\ abortWhy' = abortWhy
       ELSE /\ runPc' = "aborted"
            /\ abortWhy' = "assert"
  /\ UNCHANGED <<progVars, polls, pollOut, regsThisPoll, ready, result, ioSince, firedLast, fired>>

\* run, lines 52-61: the blocking io::poll::poll call.  The host returns the
\* positions of the ready handles, at least one.
IoPoll ==
  /\ runPc = "blocked"
  /\ \E S \in (SUBSET (1..Len(wakers))) \ {{}} :
       /\ ready' = [i \in 1..Len(wakers) |-> i \in S]
       /\ firedLast' = Cardinality(S)
  /\ ioSince' = ioSince + 1
  /\ runPc' = "woken"
  /\ UNCHANGED <<progVars, abortWhy, polls, pollOut, regsThisPoll, WAKERS, wakers, result,
                 lock, fired>>

\* Mutant: the entries that are not ready are re-inserted at the front.
RECURSIVE NewWakersReversed(_, _)
NewWakersReversed(ws, rs) ==
  IF ws = <<>> THEN <<>>
  ELSE IF Head(rs) THEN NewWakersReversed(Tail(ws), Tail(rs))
       ELSE NewWakersReversed(Tail(ws), Tail(rs)) \o <<Head(ws)>>

\* The entries whose wake signal run fires (lines 63-65): those ready, in order.
RECURSIVE FiredWakers(_, _)
FiredWakers(ws, rs) ==
  IF ws = <<>> THEN <<>>
  ELSE IF Head(rs) THEN <<Head(ws)>> \o FiredWakers(Tail(ws), Tail(rs))
       ELSE FiredWakers(Tail(ws), Tail(rs))

\* The entries run re-inserts (lines 63-69): the drained entries not ready, in order.
RECURSIVE NewWakers(_, _)
NewWakers(ws, rs) ==
  IF ws = <<>> THEN <<>>
  ELSE IF Head(rs) THEN NewWakers(Tail(ws), Tail(rs))
       ELSE <<Head(ws)>> \o NewWakers(Tail(ws), Tail(rs))

\* Mutant of the end of the loop body: run blocks again on the entries that
\* were not ready instead of storing them and polling the future.
RunWakeNoRepoll ==
  /\ runPc = "woken"
  /\ wakers' = NewWakers(wakers, ready)
  /\ ready' = <<>>
  /\ runPc' = "blocked"
  /\ UNCHANGED <<progVars, abortWhy, polls, pollOut, regsThisPoll, WAKERS, result,
                 lock, ioSince, firedLast, fired>>

\* run, lines 63-71: wake the ready entries, keep the others, store them.
RunWake ==
  /\ runPc = "woken"
  /\ lock = "free"
  /\ lock' = LockAfterStore
  /\ fired' = FiredWakers(wakers, ready)
  /\ WAKERS' = NewWakers(wakers, ready)
  /\ wakers' = <<>>
  /\ ready' = <<>>
  /\ runPc' = "poll"
  /\ UNCHANGED <<progVars, abortWhy, polls, pollOut, regsThisPoll, result, ioSince, firedLast>>

\* run, line 73: on Ready, return the value.
RunReady ==
  /\ runPc = "polled"
  /\ pollOut.kind = "Ready"
  /\ result' = pollOut.val
  /\ runPc' = "done"
  /\ UNCHANGED <<progVars, abortWhy, polls, pollOut, regsThisPoll, WAKERS, wakers, ready,
                 lock, ioSince, firedLast, fired>>

\* ------------------------------------------- what a poll does to run's state

\* A sub-operation registered `pollable` and returned Pending; so does the root.
Suspend(pollable) ==
  /\ lock = "free"
  /\ lock' = LockAfterPush
  /\ WAKERS' = push_waker(WAKERS, pollable)
  /\ regsThisPoll' = regsThisPoll + 1
  /\ pollOut' = Pending
  /\ runPc' = "polled"
  /\ UNCHANGED <<abortWhy, polls, wakers, ready, result, ioSince, firedLast, fired>>

\* The root task goes on within the same poll.
GoOn == UNCHANGED runVars

\* A panic inside the poll: the wasm32 build aborts.
Panic ==
  /\ runPc' = "aborted"
  /\ abortWhy' = "panic"
  /\ UNCHANGED <<polls, pollOut, regsThisPoll, WAKERS, wakers, ready, result,
                 lock, ioSince, firedLast, fired>>

\* ------------------------------------------------ the host's output stream
\* check-write returns Ok(count) or Err; count is a u64, and `fits` says whether
\* it fits the usize of the wasm32 target.  A stream that reported an error is
\* closed: every later call returns Closed.  Zero capacity (which suspends the
\* send) is reported only while the root future may still be polled again.

OkCount(n) == [kind |-> "Ok", count |-> n, fits |-> TRUE, e |-> NoRes]
OkWide == [kind |-> "Ok", count |-> MaxCap + 1, fits |-> FALSE, e |-> NoRes]
OkUnit == [kind |-> "Ok", count |-> 0, fits |-> TRUE, e |-> NoRes]
ErrOf(e) == [kind |-> "Err", count |-> 0, fits |-> TRUE, e |-> e]

CheckWriteResults ==
  IF hostOut = "closed" THEN {ErrOf(Closed)}
  ELSE {OkCount(n) : n \in (IF polls < MaxPolls THEN 0 ELSE 1)..MaxCap}
       \cup {OkWide} \cup {ErrOf(e) : e \in StreamErrors}

UnitResults ==
  IF hostOut = "closed" THEN {ErrOf(Closed)}
  ELSE {OkUnit} \cup {ErrOf(e) : e \in StreamErrors}

\* ------------------------------------------------------ the sink's send

\* Mutants: a closed stream fails the send whatever the offset; a closed
\* stream completes the send whatever the offset; any error completes the
\* send of a chunk that is written.
CheckWriteErrWrittenOk(e, off, len) == IF off = len THEN OkRes ELSE e
CheckWriteErrAlways(e, off, len) == e
CheckWriteErrClosedOk(e, off, len) == IF e = Closed THEN OkRes ELSE e

\* Lines 80-83: check-write failed with e at this offset of a chunk of length len.
CheckWriteErr(e, off, len) == IF e = Closed /\ off = len THEN OkRes ELSE e

\* Mutant: a failure of the flush request is swallowed.
FlushErrSwallowed(e) == OkRes

\* Lines 61-62: the flush request failed with e.
FlushErr(e) == IF e = Closed THEN OkRes ELSE e

\* Mutant: the offset is set to the count written.
AdvanceAssign(off, count) == count

\* Line 71: offset += count.
Advance(off, count) == off + count

\* Lines 66-67: the bytes to write for a capacity of count.
WriteCount(count, len, off) == Min(count, len - off)

\* Mutant: the slice is taken from the start of the chunk.
SliceFromStart(c, off, count) == SubSeq(c, 1, count)

\* Line 69: &chunk[offset..][..count].
Slice(c, off, count) == SubSeq(c, off + 1, off + count)

\* Mutants: an empty chunk never counts as written; a chunk counts as written
\* one byte early.
AllWrittenNotEmpty(off, len) == off = len /\ len > 0
AllWrittenEarly(off, len) == off + 1 >= len

\* Line 55: the whole chunk has been written.
AllWritten(off, len) == off = len

\* Mutant: the send does not remember that it requested the flush.
FlushRequestedForgotten == FALSE

\* Line 60: flushing = true, once flush returned Ok.
FlushRequested == TRUE

\* Whether the iteration calls flush (line 59), write (line 69), after cw.
CallsFlush(cw) ==
  cw.kind = "Ok" /\ cw.count > 0 /\ AllWritten(offset, Len(chunk)) /\ ~flushing
CallsWrite(cw) ==
  cw.kind = "Ok" /\ cw.count > 0 /\ ~AllWritten(offset, Len(chunk)) /\ cw.fits

\* Mutant: a flush request that succeeds completes the send at once.
SendIterFlushCompletes(cw, fr, wr) ==
  LET len == Len(chunk)
      base == [out |-> "Loop", res |-> NoRes, end |-> NoEnd, offset |-> offset,
               flushing |-> flushing, writes |-> writes, flushes |-> flushes,
               host |-> hostOut, accepted |-> 0]
      count == WriteCount(cw.count, len, offset)
      call == [cap |-> cw.count, off |-> offset, data |-> Slice(chunk, offset, count),
               ok |-> wr.kind = "Ok"]
  IN  CASE cw.kind = "Ok" /\ cw.count = 0 ->
             [base EXCEPT !.out = "Pending"]
        [] cw.kind = "Ok" /\ cw.count > 0 /\ AllWritten(offset, len) /\ flushing ->
             [base EXCEPT !.out = "Ready", !.res = OkRes,
                          !.end = [call |-> "check_write", res |-> OkRes]]
        [] cw.kind = "Ok" /\ cw.count > 0 /\ AllWritten(offset, len) /\ ~flushing ->
             IF fr.kind = "Ok"
               THEN [base EXCEPT !.out = "Ready", !.res = OkRes,
                                 !.end = [call |-> "flush", res |-> OkRes],
                                 !.flushes = flushes + 1]
               ELSE [base EXCEPT !.out = "Ready", !.res = FlushErr(fr.e),
                                 !.end = [call |-> "flush", res |-> fr.e],
                                 !.flushes = flushes + 1, !.host = "closed"]
        [] cw.kind = "Ok" /\ cw.count > 0 /\ ~AllWritten(offset, len) ->
             IF ~cw.fits
               THEN [base EXCEPT !.out = "Panic"]
               ELSE IF wr.kind = "Ok"
                 THEN [base EXCEPT !.offset = Advance(offset, count),
                                   !.writes = Append(writes, call),
                                   !.accepted = Len(call.data)]
                 ELSE [base EXCEPT !.out = "Ready", !.res = wr.e,
                                   !.end = [call |-> "write", res |-> wr.e],
                                   !.writes = Append(writes, call),
                                   !.host = "closed"]
        [] cw.kind = "Err" ->
             [base EXCEPT !.out = "Ready", !.res = CheckWriteErr(cw.e, offset, len),
                          !.end = [call |-> "check_write", res |-> cw.e],
                          !.host = "closed"]

\* One iteration of the loop of lines 45-85, for the results cw of check_write
\* and, where they are called, fr of flush and wr of write.
SendIter(cw, fr, wr) ==
  LET len == Len(chunk)
      base == [out |-> "Loop", res |-> NoRes, end |-> NoEnd, offset |-> offset,
               flushing |-> flushing, writes |-> writes, flushes |-> flushes,
               host |-> hostOut, accepted |-> 0]
      count == WriteCount(cw.count, len, offset)
      call == [cap |-> cw.count, off |-> offset, data |-> Slice(chunk, offset, count),
               ok |-> wr.kind = "Ok"]
  IN  CASE cw.kind = "Ok" /\ cw.count = 0 ->
             [base EXCEPT !.out = "Pending"]
        [] cw.kind = "Ok" /\ cw.count > 0 /\ AllWritten(offset, len) /\ flushing ->
             [base EXCEPT !.out = "Ready", !.res = OkRes,
                          !.end = [call |-> "check_write", res |-> OkRes]]
        [] cw.kind = "Ok" /\ cw.count > 0 /\ AllWritten(offset, len) /\ ~flushing ->
             IF fr.kind = "Ok"
               THEN [base EXCEPT !.flushing = FlushRequested, !.flushes = flushes + 1]
               ELSE [base EXCEPT !.out = "Ready", !.res = FlushErr(fr.e),
                                 !.end = [call |-> "flush", res |-> fr.e],
                                 !.flushes = flushes + 1, !.host = "closed"]
        [] cw.kind = "Ok" /\ cw.count > 0 /\ ~AllWritten(offset, len) ->
             IF ~cw.fits
               THEN [base EXCEPT !.out = "Panic"]
               ELSE IF wr.kind = "Ok"
                 THEN [base EXCEPT !.offset = Advance(offset, count),
                                   !.writes = Append(writes, call),
                                   !.accepted = Len(call.data)]
                 ELSE [base EXCEPT !.out = "Ready", !.res = wr.e,
                                   !.end = [call |-> "write", res |-> wr.e],
                                   !.writes = Append(writes, call),
                                   !.host = "closed"]
        [] cw.kind = "Err" ->
             [base EXCEPT !.out = "Ready", !.res = CheckWriteErr(cw.e, offset, len),
                          !.end = [call |-> "check_write", res |-> cw.e],
                          !.host = "closed"]

\* What the host returns to OutgoingBody::finish: Ok(()) or Err(error code).
FinishResults == {"Ok", "Err"}

\* Mutant of Outgoing::drop that leaves the pair alone once a send has failed.
OutgoingDropSkipsAfterFailure ==
  IF outPair = "Some" /\ sendRes \notin StreamErrors
    THEN /\ outPair' = "None"
         /\ outStream' = "released"
         /\ outFinish' = Append(outFinish, "no_trailers")
         /\ \E fr \in FinishResults : outFinishRes' = fr
         /\ outFinishSaw' = outStream'
    ELSE UNCHANGED <<outPair, outStream, outFinish, outFinishRes, outFinishSaw>>

\* Mutants of Outgoing::drop: one that does not finish the body, one that does
\* not drop the stream.
OutgoingDropNoFinish ==
  IF outPair = "Some"
    THEN /\ outPair' = "None"
         /\ outStream' = "released"
         /\ outFinish' = outFinish
         /\ outFinishRes' = outFinishRes
         /\ outFinishSaw' = outFinishSaw
    ELSE UNCHANGED <<outPair, outStream, outFinish, outFinishRes, outFinishSaw>>
OutgoingDropKeepsStream ==
  IF outPair = "Some"
    THEN /\ outPair' = "None"
         /\ outStream' = outStream
         /\ outFinish' = Append(outFinish, "no_trailers")
         /\ \E fr \in FinishResults : outFinishRes' = fr
         /\ outFinishSaw' = outStream'
    ELSE UNCHANGED <<outPair, outStream, outFinish, outFinishRes, outFinishSaw>>

\* Mutant of Outgoing::drop that finishes the body before it drops the stream.
OutgoingDropFinishFirst ==
  IF outPair = "Some"
    THEN /\ outPair' = "None"
         /\ outFinish' = Append(outFinish, "no_trailers")
         /\ \E fr \in FinishResults : outFinishRes' = fr
         /\ outFinishSaw' = outStream
         /\ outStream' = "released"
    ELSE UNCHANGED <<outPair, outStream, outFinish, outFinishRes, outFinishSaw>>

\* Outgoing::drop, lines 24-29: take the pair (25), drop the stream (26), then
\* call finish(body, None) (27), which finds the stream as line 26 left it.
OutgoingDrop ==
  IF outPair = "Some"
    THEN /\ outPair' = "None"
         /\ outStream' = "released"
         /\ outFinish' = Append(outFinish, "no_trailers")
         /\ \E fr \in FinishResults : outFinishRes' = fr
         /\ outFinishSaw' = outStream'
    ELSE UNCHANGED <<outPair, outStream, outFinish, outFinishRes, outFinishSaw>>

\* The task calls send(chunk) on the sink (lines 35-40): the unfold sink calls
\* the closure, which makes the send's future with offset 0.
UserSend ==
  /\ root = "sink"
  /\ runPc = "inpoll"
  /\ userPc = "idle"
  /\ sinkSt = "Value"
  /\ sends < MaxSends
  /\ \E c \in Chunks : chunk' = c
  /\ offset' = 0
  /\ flushing' = FALSE
  /\ writes' = <<>>
  /\ flushes' = 0
  /\ sendRes' = NoRes
  /\ sendEnd' = NoEnd
  /\ lastCw' = "none"
  /\ sends' = sends + 1
  /\ sinkSt' = "Future"
  /\ userPc' = "send_created"
  /\ GoOn
  /\ UNCHANGED <<rootVars, strVars, outPair, outStream, outFinish, outFinishRes, outFinishSaw, hostOut, closes, outDropAt,
                 unreported, completions>>

\* One iteration of the send's poll (lines 42-86).  When the send completes
\* the unfold sink keeps its state on Ok and becomes empty on Err.
SendStep ==
  /\ root \in SendRoots
  /\ runPc = "inpoll"
  /\ userPc \in {"send_created", "send_running", "send_waiting"}
  /\ \E cw \in CheckWriteResults :
     \E fr \in (IF CallsFlush(cw) THEN UnitResults ELSE {OkUnit}),
        wr \in (IF CallsWrite(cw) THEN UnitResults ELSE {OkUnit}) :
       LET n == SendIter(cw, fr, wr)
       IN  /\ offset' = n.offset
           /\ flushing' = n.flushing
           /\ writes' = n.writes
           /\ flushes' = n.flushes
           /\ hostOut' = n.host
           /\ sendRes' = n.res
           /\ sendEnd' = n.end
           /\ lastCw' = IF cw.kind = "Err" THEN "err"
                        ELSE IF cw.count = 0 THEN "zero" ELSE "some"
           /\ completions' = IF n.out = "Ready" THEN completions + 1 ELSE completions
           /\ unreported' = unreported + n.accepted
                              - (IF n.out = "Ready" /\ n.res = OkRes THEN Len(chunk) ELSE 0)
           /\ CASE n.out = "Pending" ->
                     /\ Suspend("out")
                     /\ userPc' = "send_waiting"
                     /\ sinkSt' = sinkSt
                [] n.out = "Loop" ->
                     /\ GoOn
                     /\ userPc' = "send_running"
                     /\ sinkSt' = sinkSt
                [] n.out = "Panic" ->
                     /\ Panic
                     /\ userPc' = "send_running"
                     /\ sinkSt' = sinkSt
                [] n.out = "Ready" ->
                     /\ GoOn
                     /\ userPc' = "idle"
                     /\ sinkSt' = IF n.res = OkRes THEN "Value" ELSE "Empty"
  /\ UNCHANGED <<rootVars, strVars, chunk, outPair, outStream, outFinish, outFinishRes, outFinishSaw, sends, closes, outDropAt>>

\* The task closes the sink: the unfold sink's close only drives a send in
\* progress, and there is none; the closure and its pair stay.
UserClose ==
  /\ root = "sink"
  /\ runPc = "inpoll"
  /\ userPc = "idle"
  /\ sinkSt \in {"Value", "Empty"}
  /\ closes = 0
  /\ closes' = closes + 1
  /\ GoOn
  /\ UNCHANGED <<rootVars, userPc, strVars, sinkSt, chunk, offset, flushing, outPair,
                 outStream, outFinish, outFinishRes, outFinishSaw, hostOut, writes, sends, sendRes, sendEnd,
                 flushes, outDropAt, unreported, completions, lastCw>>

\* Where the sink is when it is dropped.
SinkPoint ==
  CASE userPc = "send_waiting" -> "suspended"
    [] userPc = "send_created" -> "started"
    [] sinkSt = "Empty" -> "failed"
    [] closes > 0 -> "closed"
    [] sends > 0 -> "sent"
    [] OTHER -> "fresh"

\* The task drops the sink, with its send if one is not complete (not polled
\* yet, or suspended): the last reference to the pair goes and Outgoing::drop
\* runs.
UserDropSink ==
  /\ root = "sink"
  /\ runPc = "inpoll"
  /\ userPc \in {"idle", "send_created", "send_waiting"}
  /\ sinkSt \in {"Value", "Future", "Empty"}
  /\ OutgoingDrop
  /\ outDropAt' = SinkPoint
  /\ sinkSt' = "Dropped"
  /\ userPc' = "idle"
  /\ GoOn
  /\ UNCHANGED <<rootVars, strVars, chunk, offset, flushing, hostOut, writes, sends,
                 sendRes, sendEnd, flushes, closes, unreported, completions, lastCw>>

\* The task returns: what it still owns is dropped, and the root future is Ready.
UserReturnSink ==
  /\ root = "sink"
  /\ runPc = "inpoll"
  /\ userPc = "idle"
  /\ IF sinkSt = "Dropped"
       THEN UNCHANGED <<outPair, outStream, outFinish, outFinishRes, outFinishSaw, outDropAt, sinkSt>>
       ELSE /\ OutgoingDrop
            /\ outDropAt' = SinkPoint
            /\ sinkSt' = "Dropped"
  /\ userPc' = "returned"
  /\ pollOut' = Ready("v1")
  /\ runPc' = "polled"
  /\ UNCHANGED <<abortWhy, polls, regsThisPoll, WAKERS, wakers, ready, result,
                 lock, ioSince, firedLast, fired>>
  /\ UNCHANGED <<rootVars, strVars, chunk, offset, flushing, hostOut, writes, sends,
                 sendRes, sendEnd, flushes, closes, unreported, completions, lastCw>>


\* ------------------------------------------------- the host's input stream
\* read returns Ok(buffer) or Err.  A stream that reported Closed or a failure
\* is closed: every later read returns Closed.  An empty buffer (which suspends
\* the pull) is returned only while the root future may still be polled again.

OkBuf(b) == [kind |-> "Ok", buf |-> b, e |-> NoRes]
ErrRead(e) == [kind |-> "Err", buf |-> <<>>, e |-> e]

ReadResults ==
  IF hostIn = "closed" THEN {ErrRead(Closed)}
  ELSE {OkBuf(b) : b \in {x \in Buffers : x # <<>> \/ polls < MaxPolls}}
       \cup {ErrRead(e) : e \in StreamErrors}

\* ------------------------------------------------------- the stream's pull

\* Poll<Option<Result<Vec<u8>, Error>>>
ItemChunk(b) == [kind |-> "Chunk", buf |-> b, err |-> "none"]
ItemErr(e) == [kind |-> "Err", buf |-> <<>>, err |-> e]
ItemEnd == [kind |-> "End", buf |-> <<>>, err |-> "none"]
ItemPending == [kind |-> "Pending", buf |-> <<>>, err |-> "none"]

\* Mutants of the poll: one that yields an empty buffer as a chunk, one with
\* the arms of Closed and LastOperationFailed exchanged, one that suspends
\* on a closed stream.
IncomingPollClosedSuspends(r) ==
  CASE r.kind = "Ok" /\ r.buf = <<>> -> ItemPending
    [] r.kind = "Ok" /\ r.buf # <<>> -> ItemChunk(r.buf)
    [] r.kind = "Err" /\ r.e = Closed -> ItemPending
    [] r.kind = "Err" /\ r.e # Closed -> ItemErr(r.e.err)
IncomingPollNoEmptyCheck(r) ==
  CASE r.kind = "Ok" -> ItemChunk(r.buf)
    [] r.kind = "Err" /\ r.e = Closed -> ItemEnd
    [] r.kind = "Err" /\ r.e # Closed -> ItemErr(r.e.err)
IncomingPollArmsExchanged(r) ==
  CASE r.kind = "Ok" /\ r.buf = <<>> -> ItemPending
    [] r.kind = "Ok" /\ r.buf # <<>> -> ItemChunk(r.buf)
    [] r.kind = "Err" /\ r.e = Closed -> ItemErr(r.e.err)
    [] r.kind = "Err" /\ r.e # Closed -> ItemEnd

\* Lines 133-144: what one poll of the stream returns for the result r of read.
IncomingPoll(r) ==
  CASE r.kind = "Ok" /\ r.buf = <<>> -> ItemPending
    [] r.kind = "Ok" /\ r.buf # <<>> -> ItemChunk(r.buf)
    [] r.kind = "Err" /\ r.e = Closed -> ItemEnd
    [] r.kind = "Err" /\ r.e # Closed -> ItemErr(r.e.err)

\* Incoming::drop, lines 119-124: take the pair (120), drop the stream (121),
\* then call finish(body) (122), which finds the stream as line 121 left it.
IncomingDrop ==
  IF inPair = "Some"
    THEN /\ inPair' = "None"
         /\ inStream' = "released"
         /\ inFinish' = inFinish + 1
         /\ inFinishSaw' = inStream'
    ELSE UNCHANGED <<inPair, inStream, inFinish, inFinishSaw>>

\* One poll of the stream (lines 131-148), from a pull of the task: a pull
\* that was suspended polls again.  While the pair is there the poll reads;
\* without it (line 146) it ends the sequence.
StreamPoll ==
  /\ root = "stream"
  /\ runPc = "inpoll"
  /\ userPc \in {"idle", "pulling"}
  /\ strSt = "Alive"
  /\ Len(reads) < MaxReads
  /\ IF inPair = "Some"
       THEN \E r \in ReadResults :
              /\ reads' = Append(reads, r)
              /\ hostIn' = IF r.kind = "Err" THEN "closed" ELSE hostIn
              /\ IF IncomingPoll(r) = ItemPending
                   THEN /\ Suspend("in")
                        /\ userPc' = "pulling"
                        /\ yielded' = yielded
                   ELSE /\ GoOn
                        /\ userPc' = "idle"
                        /\ yielded' = Append(yielded, IncomingPoll(r))
       ELSE /\ GoOn
            /\ userPc' = "idle"
            /\ yielded' = Append(yielded, ItemEnd)
            /\ UNCHANGED <<reads, hostIn>>
  /\ UNCHANGED <<rootVars, sinkVars, strSt, inPair, inStream, inFinish, inFinishSaw, inDropAt>>

\* Where the stream is when it is dropped.
StreamPoint ==
  CASE userPc = "pulling" -> "suspended"
    [] yielded # <<>> /\ yielded[Len(yielded)].kind = "End" -> "ended"
    [] yielded # <<>> /\ yielded[Len(yielded)].kind = "Err" -> "failed"
    [] yielded # <<>> -> "pulled"
    [] OTHER -> "fresh"

\* The task drops the stream, with its pull if one is suspended.
UserDropStream ==
  /\ root = "stream"
  /\ runPc = "inpoll"
  /\ userPc \in {"idle", "pulling"}
  /\ strSt = "Alive"
  /\ IncomingDrop
  /\ inDropAt' = StreamPoint
  /\ strSt' = "Dropped"
  /\ userPc' = "idle"
  /\ GoOn
  /\ UNCHANGED <<rootVars, sinkVars, hostIn, reads, yielded>>

\* The task returns: what it still owns is dropped, and the root future is Ready.
UserReturnStream ==
  /\ root = "stream"
  /\ runPc = "inpoll"
  /\ userPc = "idle"
  /\ IF strSt = "Dropped"
       THEN UNCHANGED <<inPair, inStream, inFinish, inFinishSaw, inDropAt, strSt>>
       ELSE /\ IncomingDrop
            /\ inDropAt' = StreamPoint
            /\ strSt' = "Dropped"
  /\ userPc' = "returned"
  /\ pollOut' = Ready("v2")
  /\ runPc' = "polled"
  /\ UNCHANGED <<abortWhy, polls, regsThisPoll, WAKERS, wakers, ready, result,
                 lock, ioSince, firedLast, fired>>
  /\ UNCHANGED <<rootVars, sinkVars, hostIn, reads, yielded>>


\* ------------------------------------------------------- the send bridge

\* FutureIncomingResponse::get: None while the host has no result, Some(Ok(r))
\* the first time it has one, Some(Err(())) once the result was taken.
GotNone == [kind |-> "None", outer |-> "none", res |-> NoResp]
GotSome(r) == [kind |-> "Some", outer |-> "Ok", res |-> r]
GotTaken == [kind |-> "Some", outer |-> "Err", res |-> NoResp]
NotCalled == [kind |-> "NotCalled", outer |-> "none", res |-> NoResp]

\* The host decides when the result is there; it is not there for ever.
GetResults ==
  CASE hostResp = "waiting" ->
         {GotSome(r) : r \in HostResults} \cup (IF polls < MaxPolls THEN {GotNone} ELSE {})
    [] hostResp = "taken" -> {GotTaken}
    [] OTHER -> {NotCalled}

\* Mutants of the poll: one that subscribes before it looks at the result,
\* one that suspends on a failed submission.
BridgePollSubscribesFirst(resp, got) ==
  CASE resp.kind = "Ok" /\ got.kind = "Some" /\ got.outer = "Ok" ->
         [out |-> BridgeReady(got.res), sub |-> TRUE, panic |-> FALSE]
    [] resp.kind = "Ok" /\ got.kind = "Some" /\ got.outer = "Err" ->
         [out |-> BridgePending, sub |-> TRUE, panic |-> TRUE]
    [] resp.kind = "Ok" /\ got.kind = "None" ->
         [out |-> BridgePending, sub |-> TRUE, panic |-> FALSE]
    [] resp.kind = "Err" ->
         [out |-> BridgeReady(resp), sub |-> FALSE, panic |-> FALSE]
BridgePollErrSuspends(resp, got) ==
  CASE resp.kind = "Ok" /\ got.kind = "Some" /\ got.outer = "Ok" ->
         [out |-> BridgeReady(got.res), sub |-> FALSE, panic |-> FALSE]
    [] resp.kind = "Ok" /\ got.kind = "Some" /\ got.outer = "Err" ->
         [out |-> BridgePending, sub |-> FALSE, panic |-> TRUE]
    [] resp.kind = "Ok" /\ got.kind = "None" ->
         [out |-> BridgePending, sub |-> TRUE, panic |-> FALSE]
    [] resp.kind = "Err" ->
         [out |-> BridgePending, sub |-> TRUE, panic |-> FALSE]

\* Lines 97-107: what one poll does for the captured `response` and, when it
\* is Ok, the result `got` of get: its outcome, whether it subscribes and
\* registers, whether unwrap panics.
BridgePollOut(resp, got) ==
  CASE resp.kind = "Ok" /\ got.kind = "Some" /\ got.outer = "Ok" ->
         [out |-> BridgeReady(got.res), sub |-> FALSE, panic |-> FALSE]
    [] resp.kind = "Ok" /\ got.kind = "Some" /\ got.outer = "Err" ->
         [out |-> BridgePending, sub |-> FALSE, panic |-> TRUE]
    [] resp.kind = "Ok" /\ got.kind = "None" ->
         [out |-> BridgePending, sub |-> TRUE, panic |-> FALSE]
    [] resp.kind = "Err" ->
         [out |-> BridgeReady(resp), sub |-> FALSE, panic |-> FALSE]

\* Mutant of the construction: the request is not submitted.
BridgeMakeNoSubmit ==
  /\ root = "bridge"
  /\ runPc = "inpoll"
  /\ userPc = "idle"
  /\ brSt = "None"
  /\ handleCalls' = handleCalls
  /\ response' = SubmitOk
  /\ hostResp' = "waiting"
  /\ brSt' = "Made"
  /\ GoOn
  /\ UNCHANGED <<root, hsRes, ibVars, swbVars, twoVars, userPc, sinkVars, strVars, hostVal, brSubs, brPolls, brLast>>

\* outgoing_request_send, lines 95-96: handle is called, then the future is
\* made around its result.
BridgeMake ==
  /\ root = "bridge"
  /\ runPc = "inpoll"
  /\ userPc = "idle"
  /\ brSt = "None"
  /\ handleCalls' = handleCalls + 1
  /\ \/ /\ response' = SubmitOk
        /\ hostResp' = "waiting"
     \/ /\ \E c \in ErrorCodes : response' = RespErr(c)
        /\ hostResp' = hostResp
  /\ brSt' = "Made"
  /\ GoOn
  /\ UNCHANGED <<root, hsRes, ibVars, swbVars, twoVars, userPc, sinkVars, strVars, hostVal, brSubs, brPolls, brLast>>

\* Mutant: http::send polls the response as soon as no send is running.
ResponseAwaitedAtOnce == TRUE

\* http.rs, lines 1036-1038: http::send awaits the response after the send
\* returned Ok and the sink was dropped, and until the response is Ready.
ResponseAwaited ==
  root = "http_send" => (sinkSt = "Dropped" /\ brLast.out.kind # "Ready")

\* One poll of the bridge's future (lines 97-107), by the task that awaits it
\* or polls it again.
BridgePoll ==
  /\ root \in BridgeRoots
  /\ ResponseAwaited
  /\ runPc = "inpoll"
  /\ userPc \in {"idle", "br_waiting"}
  /\ brSt = "Made"
  /\ brPolls < MaxBridgePolls
  /\ brPolls' = brPolls + 1
  /\ \E got \in (IF response.kind = "Ok" THEN GetResults ELSE {NotCalled}) :
       LET p == BridgePollOut(response, got)
       IN  /\ hostResp' = IF got.kind = "Some" THEN "taken" ELSE hostResp
           /\ hostVal' = IF got.kind = "Some" /\ got.outer = "Ok" THEN got.res ELSE hostVal
           /\ brSubs' = brSubs + (IF p.sub THEN 1 ELSE 0)
           /\ brLast' = [subs |-> IF p.sub THEN 1 ELSE 0,
                         regs |-> IF p.sub THEN 1 ELSE 0,
                         out |-> p.out]
           /\ CASE p.panic ->
                     /\ Panic
                     /\ userPc' = userPc
                [] ~p.panic /\ p.sub ->
                     /\ Suspend("response")
                     /\ userPc' = "br_waiting"
                [] OTHER ->
                     /\ GoOn
                     /\ userPc' = "idle"
  /\ UNCHANGED <<root, hsRes, ibVars, swbVars, twoVars, sinkVars, strVars, brSt, handleCalls, response>>

\* The task returns: the bridge's future, if there is one, is dropped.
UserReturnBridge ==
  /\ root = "bridge"
  /\ runPc = "inpoll"
  /\ userPc = "idle"
  /\ brSt' = IF brSt = "Made" THEN "Dropped" ELSE brSt
  /\ userPc' = "returned"
  /\ pollOut' = Ready("v1")
  /\ runPc' = "polled"
  /\ UNCHANGED <<abortWhy, polls, regsThisPoll, WAKERS, wakers, ready, result,
                 lock, ioSince, firedLast, fired>>
  /\ UNCHANGED <<root, hsRes, ibVars, swbVars, twoVars, sinkVars, strVars, handleCalls, response, hostResp,
                 hostVal, brSubs, brPolls, brLast>>


\* ------------------------------------------------------------- into_body

\* Mutant: the chunk is put in front of the buffer.
ExtendFront(b, c) == c \o b

\* Line 837 (and 870): body.extend(chunk).
Extend(b, c) == b \o c

\* The body the host delivers is finite: the last read the bound allows
\* reports the end or a failure.
IntoBodyReads ==
  IF Len(reads) + 1 < MaxReads THEN ReadResults
  ELSE {r \in ReadResults : r.kind = "Err"}

\* One turn of the loop of lines 836-838 (and 869-871): try_next polls the
\* stream; a chunk extends the buffer, the end returns Ok(body), an error
\* returns it through `?`.  Returning drops the stream.
IntoBodyStep ==
  /\ root = "into_body"
  /\ runPc = "inpoll"
  /\ userPc \in {"idle", "pulling"}
  /\ strSt = "Alive"
  /\ \E r \in IntoBodyReads :
       LET item == IncomingPoll(r)
       IN  /\ reads' = Append(reads, r)
           /\ hostIn' = IF r.kind = "Err" THEN "closed" ELSE hostIn
           /\ CASE item.kind = "Pending" ->
                     /\ Suspend("in")
                     /\ userPc' = "pulling"
                     /\ UNCHANGED <<yielded, body, ibRes, strSt, inPair, inStream,
                                    inFinish, inFinishSaw, inDropAt>>
                [] item.kind = "Chunk" ->
                     /\ GoOn
                     /\ userPc' = "idle"
                     /\ yielded' = Append(yielded, item)
                     /\ body' = Extend(body, item.buf)
                     /\ UNCHANGED <<ibRes, strSt, inPair, inStream, inFinish, inFinishSaw, inDropAt>>
                [] item.kind \in {"End", "Err"} ->
                     /\ yielded' = Append(yielded, item)
                     /\ ibRes' = IF item.kind = "End" THEN BodyOk(body) ELSE BodyErr(item.err)
                     /\ body' = <<>>
                     /\ IncomingDrop
                     /\ inDropAt' = IF item.kind = "End" THEN "ended" ELSE "failed"
                     /\ strSt' = "Dropped"
                     /\ userPc' = "returned"
                     /\ pollOut' = Ready("v2")
                     /\ runPc' = "polled"
                     /\ UNCHANGED <<abortWhy, polls, regsThisPoll, WAKERS, wakers,
                                    ready, result, lock, ioSince, firedLast, fired>>
  /\ UNCHANGED <<root, hsRes, brVars, swbVars, twoVars, sinkVars>>


\* -------------------------------------------------------- set_with_body

\* Mutant: the response is not set on the outparam before the body is sent.
SetWithBodyStartNoSet ==
  /\ root = "set_with_body"
  /\ runPc = "inpoll"
  /\ userPc = "idle"
  /\ sinkSt = "None"
  /\ outPair' = "Some"
  /\ outStream' = "held"
  /\ outparam' = outparam
  /\ \E buffer \in Chunks : chunk' = buffer
  /\ offset' = 0
  /\ flushing' = FALSE
  /\ writes' = <<>>
  /\ flushes' = 0
  /\ sendRes' = NoRes
  /\ sendEnd' = NoEnd
  /\ lastCw' = "none"
  /\ sends' = sends + 1
  /\ sinkSt' = "Future"
  /\ userPc' = "send_created"
  /\ GoOn
  /\ UNCHANGED <<root, hsRes, brVars, ibVars, twoVars, swbRes, strVars, outFinish, outFinishRes, outFinishSaw, hostOut, closes,
                 outDropAt, unreported, completions>>

\* set_with_body, lines 957-959 up to the await: take_body makes the sink
\* (executor.rs:32-33), set hands the response to the outparam, send makes
\* the sink's send future for the buffer (executor.rs:36-40).
SetWithBodyStart ==
  /\ root = "set_with_body"
  /\ runPc = "inpoll"
  /\ userPc = "idle"
  /\ sinkSt = "None"
  /\ outPair' = "Some"
  /\ outStream' = "held"
  /\ outparam' = "set"
  /\ \E buffer \in Chunks : chunk' = buffer
  /\ offset' = 0
  /\ flushing' = FALSE
  /\ writes' = <<>>
  /\ flushes' = 0
  /\ sendRes' = NoRes
  /\ sendEnd' = NoEnd
  /\ lastCw' = "none"
  /\ sends' = sends + 1
  /\ sinkSt' = "Future"
  /\ userPc' = "send_created"
  /\ GoOn
  /\ UNCHANGED <<root, hsRes, brVars, ibVars, twoVars, swbRes, strVars, outFinish, outFinishRes, outFinishSaw, hostOut, closes,
                 outDropAt, unreported, completions>>

\* set_with_body, lines 959-960: the send completed; its result is returned
\* and the local sink is dropped.
SetWithBodyReturn ==
  /\ root = "set_with_body"
  /\ runPc = "inpoll"
  /\ userPc = "idle"
  /\ sinkSt \in {"Value", "Empty"}
  /\ swbRes' = sendRes
  /\ OutgoingDrop
  /\ outDropAt' = SinkPoint
  /\ sinkSt' = "Dropped"
  /\ userPc' = "returned"
  /\ pollOut' = Ready("v1")
  /\ runPc' = "polled"
  /\ UNCHANGED <<abortWhy, polls, regsThisPoll, WAKERS, wakers, ready, result,
                 lock, ioSince, firedLast, fired>>
  /\ UNCHANGED <<root, hsRes, brVars, ibVars, twoVars, outparam, strVars, chunk, offset, flushing,
                 hostOut, writes, sends, sendRes, sendEnd, flushes, closes, unreported,
                 completions, lastCw>>

\* ------------------------------------------------ two streams pulled at once
\* A task that owns two streams made by incoming_body and pulls both at once
\* (a join or a select of the two pulls): each poll of the root polls, in
\* order, every pull that has not completed.

\* The wait handle subscribed from the i-th stream (line 135).
InPollable(i) == IF i = 1 THEN "in1" ELSE "in2"

\* One poll of the i-th stream's pull (lines 131-148): an empty read
\* registers the stream's wait handle and returns Pending (135-136),
\* anything else returns an element.
TwoPull ==
  /\ root = "two_streams"
  /\ runPc = "inpoll"
  /\ nextPull \in 1..2
  /\ IF pullSt[nextPull] = "done"
       THEN UNCHANGED <<pullSt, WAKERS, regsThisPoll, lock>>
       ELSE \/ /\ polls < MaxPolls
               /\ lock = "free"
               /\ lock' = LockAfterPush
               /\ WAKERS' = push_waker(WAKERS, InPollable(nextPull))
               /\ regsThisPoll' = regsThisPoll + 1
               /\ pullSt' = [pullSt EXCEPT ![nextPull] = "waiting"]
            \/ /\ pullSt' = [pullSt EXCEPT ![nextPull] = "done"]
               /\ UNCHANGED <<WAKERS, regsThisPoll, lock>>
  /\ nextPull' = nextPull + 1
  /\ UNCHANGED <<root, hsRes, brVars, ibVars, swbVars, inStreams, userPc, sinkVars, strVars>>
  /\ UNCHANGED <<runPc, abortWhy, polls, pollOut, wakers, ready, result, ioSince,
                 firedLast, fired>>

\* Both pulls were polled and one is still suspended: the root returns Pending.
TwoPending ==
  /\ root = "two_streams"
  /\ runPc = "inpoll"
  /\ nextPull = 3
  /\ \E i \in 1..2 : pullSt[i] = "waiting"
  /\ nextPull' = 1
  /\ pollOut' = Pending
  /\ runPc' = "polled"
  /\ UNCHANGED <<root, hsRes, brVars, ibVars, swbVars, pullSt, inStreams, userPc, sinkVars, strVars>>
  /\ UNCHANGED <<abortWhy, polls, regsThisPoll, WAKERS, wakers, ready, result,
                 lock, ioSince, firedLast, fired>>

\* A pull completed and the task returns: both streams are dropped, a pull
\* still suspended with its stream, and Incoming::drop (lines 119-124)
\* releases each stream.
TwoReturn ==
  /\ root = "two_streams"
  /\ runPc = "inpoll"
  /\ nextPull = 3
  /\ \E i \in 1..2 : pullSt[i] = "done"
  /\ pullSt' = [i \in 1..2 |-> IF pullSt[i] = "waiting" THEN "dropped" ELSE pullSt[i]]
  /\ inStreams' = [i \in 1..2 |-> "released"]
  /\ nextPull' = 0
  /\ userPc' = "returned"
  /\ pollOut' = Ready("v1")
  /\ runPc' = "polled"
  /\ UNCHANGED <<root, hsRes, brVars, ibVars, swbVars, sinkVars, strVars>>
  /\ UNCHANGED <<abortWhy, polls, regsThisPoll, WAKERS, wakers, ready, result,
                 lock, ioSince, firedLast, fired>>
\* ------------------------------------------ http::send with a buffered body

\* http.rs, lines 1034-1036 up to the await: take_body makes the sink
\* (executor.rs:32-33), outgoing_request_send calls handle and makes the
\* response future (executor.rs:95-96), send makes the sink's send future for
\* the buffer (executor.rs:36-40).
HttpSendStart ==
  /\ root = "http_send"
  /\ runPc = "inpoll"
  /\ userPc = "idle"
  /\ sinkSt = "None"
  /\ brSt = "None"
  /\ outPair' = "Some"
  /\ outStream' = "held"
  /\ handleCalls' = handleCalls + 1
  /\ \/ /\ response' = SubmitOk
        /\ hostResp' = "waiting"
     \/ /\ \E c \in ErrorCodes : response' = RespErr(c)
        /\ hostResp' = hostResp
  /\ brSt' = "Made"
  /\ \E body_buffer \in Chunks : chunk' = body_buffer
  /\ offset' = 0
  /\ flushing' = FALSE
  /\ writes' = <<>>
  /\ flushes' = 0
  /\ sendRes' = NoRes
  /\ sendEnd' = NoEnd
  /\ lastCw' = "none"
  /\ sends' = sends + 1
  /\ sinkSt' = "Future"
  /\ userPc' = "send_created"
  /\ GoOn
  /\ UNCHANGED <<root, hsRes, ibVars, swbVars, twoVars, strVars, hostVal, brSubs, brPolls,
                 brLast, outFinish, outFinishRes, outFinishSaw, hostOut, closes, outDropAt, unreported,
                 completions>>

\* http.rs, line 1037: the send returned Ok; drop(body_sink).
HttpSendDropSink ==
  /\ root = "http_send"
  /\ runPc = "inpoll"
  /\ userPc = "idle"
  /\ sinkSt = "Value"
  /\ OutgoingDrop
  /\ outDropAt' = SinkPoint
  /\ sinkSt' = "Dropped"
  /\ userPc' = "idle"
  /\ GoOn
  /\ UNCHANGED <<rootVars, strVars, chunk, offset, flushing, hostOut, writes, sends,
                 sendRes, sendEnd, flushes, closes, unreported, completions, lastCw>>

\* http.rs, line 1036: the send returned Err(e); `?` returns
\* Err(SendError::Io(e)), and the response future and the sink are dropped.
HttpSendFail ==
  /\ root = "http_send"
  /\ runPc = "inpoll"
  /\ userPc = "idle"
  /\ sinkSt = "Empty"
  /\ hsRes' = SendErrIo(sendRes)
  /\ brSt' = "Dropped"
  /\ OutgoingDrop
  /\ outDropAt' = SinkPoint
  /\ sinkSt' = "Dropped"
  /\ userPc' = "returned"
  /\ pollOut' = Ready("v1")
  /\ runPc' = "polled"
  /\ UNCHANGED <<abortWhy, polls, regsThisPoll, WAKERS, wakers, ready, result,
                 lock, ioSince, firedLast, fired>>
  /\ UNCHANGED <<root, ibVars, swbVars, twoVars, strVars, handleCalls, response, hostResp,
                 hostVal, brSubs, brPolls, brLast, chunk, offset, flushing, hostOut,
                 writes, sends, sendRes, sendEnd, flushes, closes, unreported,
                 completions, lastCw>>

\* http.rs, lines 1038 and 1045-1047: the response future is Ready; an error
\* code is returned as SendError::Http, a response is converted by the
\* caller's TryFromIncomingResponse, which may fail.
HttpSendReturn ==
  /\ root = "http_send"
  /\ runPc = "inpoll"
  /\ userPc = "idle"
  /\ sinkSt = "Dropped"
  /\ brLast.out.kind = "Ready"
  /\ IF brLast.out.res.kind = "Err"
       THEN hsRes' = SendErrHttp(brLast.out.res.val)
       ELSE hsRes' \in {SendOk(brLast.out.res.val), SendErrResponseConversion}
  /\ brSt' = "Dropped"
  /\ userPc' = "returned"
  /\ pollOut' = Ready("v1")
  /\ runPc' = "polled"
  /\ UNCHANGED <<abortWhy, polls, regsThisPoll, WAKERS, wakers, ready, result,
                 lock, ioSince, firedLast, fired>>
  /\ UNCHANGED <<root, ibVars, swbVars, twoVars, sinkVars, strVars, handleCalls, response,
                 hostResp, hostVal, brSubs, brPolls, brLast>>

Next ==
  \/ RunPoll
  \/ AbstractPoll
  \/ RunPending
  \/ IoPoll
  \/ RunWake
  \/ RunReady
  \/ UserSend
  \/ SendStep
  \/ UserClose
  \/ UserDropSink
  \/ UserReturnSink
  \/ StreamPoll
  \/ UserDropStream
  \/ UserReturnStream
  \/ BridgeMake
  \/ BridgePoll
  \/ UserReturnBridge
  \/ IntoBodyStep
  \/ SetWithBodyStart
  \/ SetWithBodyReturn
  \/ TwoPull
  \/ TwoPending
  \/ TwoReturn

\* ------------------------------------------- another caller of push_waker
\* push_waker is public and the registry is a static behind a Mutex: a wake
\* signal's callback (line 65) or another thread can call it while run is
\* between its drain (line 48) and its rebuild (line 71).
OtherPollable == "other"

\* push_waker, line 27, called by someone else than the future run is polling,
\* while run is blocked in io::poll::poll or is firing wake signals.
OtherPush ==
  /\ runPc \in {"blocked", "woken"}
  /\ lock = "free"
  /\ Len(WAKERS) < MaxOtherPushes
  /\ lock' = LockAfterPush
  /\ WAKERS' = push_waker(WAKERS, OtherPollable)
  /\ UNCHANGED <<progVars, runPc, abortWhy, polls, pollOut, regsThisPoll, wakers, ready,
                 result, ioSince, firedLast, fired>>

\* run of an arbitrary future while another caller uses push_waker.
OtherPushInit ==
  /\ root = "abstract"
  /\ InitProgram

OtherPushNext ==
  \/ RunPoll
  \/ AbstractPoll
  \/ RunPending
  \/ IoPoll
  \/ RunWake
  \/ RunReady
  \/ OtherPush

OtherPushSpec == OtherPushInit /\ [][OtherPushNext]_vars

\* The steps of run(http::send(request)): run's loop, the polls of the sink's
\* send and of the response future, and the steps of http::send around them.
HttpSendNext ==
  \/ RunPoll
  \/ RunPending
  \/ IoPoll
  \/ RunWake
  \/ RunReady
  \/ HttpSendStart
  \/ SendStep
  \/ HttpSendDropSink
  \/ HttpSendFail
  \/ BridgePoll
  \/ HttpSendReturn

HttpSendSpec == HttpSendInit /\ [][HttpSendNext]_vars

Spec == Init /\ [][Next]_vars

\* run is a sequential loop and the host's readiness call returns: every step
\* that can be taken is taken.
FairSpec == Spec /\ WF_vars(Next)

\* =================================================================== claims

\* ------------------------------------------------------------------ C1
\* C1 as stated: a poll that returns not-ready without registering a wait
\* handle during that poll makes run abort, whatever the registry holds.
C1_AbortsWithoutNewRegistration ==
  [][(runPc = "polled" /\ pollOut.kind = "Pending" /\ regsThisPoll = 0
        /\ runPc' # runPc)
       => (runPc' = "aborted" /\ abortWhy' = "assert")]_vars

\* C1 amended: after a poll that returns not-ready, run aborts with its
\* assertion exactly when the registry is empty (nothing registered during
\* this poll and nothing left by earlier polls); otherwise it goes on to block
\* on the registry's entries, also when this poll registered none.
C1_AbortsIffRegistryEmpty ==
  [][(runPc = "polled" /\ pollOut.kind = "Pending" /\ runPc' # runPc)
       => IF WAKERS = <<>>
            THEN runPc' = "aborted" /\ abortWhy' = "assert"
            ELSE runPc' = "blocked" /\ abortWhy' = abortWhy /\ wakers' = WAKERS]_vars

\* A later poll registered nothing, nothing was left, and run aborted.
C1_Witness ==
  /\ runPc = "aborted"
  /\ abortWhy = "assert"
  /\ polls > 1
  /\ regsThisPoll = 0

\* ------------------------------------------------------------------ C2
\* C2: run is never at the io::poll::poll call with an empty set of wait
\* handles; with an empty drained registry it has aborted instead.
C2_NeverPollsEmptySet ==
  /\ runPc \in {"blocked", "woken"} => wakers # <<>>
  /\ (runPc = "aborted" /\ abortWhy = "assert") => wakers = <<>>

\* The first poll returned not-ready with the registry empty: run aborted.
C2_Witness ==
  /\ runPc = "aborted"
  /\ abortWhy = "assert"
  /\ polls = 1
  /\ wakers = <<>>

\* ------------------------------------------------------------------ C3
\* C3: unless run aborts (a not-ready poll with an empty registry, or a panic
\* in the future), run eventually returns; and whenever it has returned, the
\* last poll of the future yielded Ready and run returned exactly its value.
C3_RunReturns ==
  /\ ([](abortWhy = "none")) => <>(runPc = "done")
  /\ [](runPc = "done" => (pollOut.kind = "Ready" /\ result = pollOut.val))

\* run returned after the future had been suspended at least once.
C3_Witness ==
  /\ runPc = "done"
  /\ polls > 1
  /\ result = pollOut.val

\* ------------------------------------------------------------------ C4
\* The offset a write of the log must start at: the end of the write before it.
WriteStart(i) == IF i = 1 THEN 0 ELSE writes[i - 1].off + Len(writes[i - 1].data)

\* C4: when a send has succeeded, its host writes carry consecutive slices of
\* the chunk from offset 0, each of min(K, remaining) >= 1 bytes for the
\* capacity K check-write reported just before, and together the whole chunk.
C4_WritesCoverChunk ==
  sendRes = OkRes =>
    /\ \A i \in 1..Len(writes) :
         /\ writes[i].ok
         /\ writes[i].off = WriteStart(i)
         /\ Len(writes[i].data) = Min(writes[i].cap, Len(chunk) - writes[i].off)
         /\ Len(writes[i].data) >= 1
         /\ writes[i].data =
              [k \in 1..Len(writes[i].data) |-> chunk[writes[i].off + k]]
    /\ WriteStart(Len(writes) + 1) = Len(chunk)

\* A chunk of three bytes went out in more than one write.
C4_Witness ==
  /\ sendRes = OkRes
  /\ Len(chunk) = 3
  /\ Len(writes) >= 2
  /\ writes[1].cap < 3

\* ------------------------------------------------------------------ C5
\* C5: body-finish is never invoked twice for a body, and a sink or input
\* stream that was dropped, wherever it was, has released its stream handle
\* and has had body-finish invoked exactly once.
C5_DropFinishesOnce ==
  /\ Len(outFinish) <= 1
  /\ inFinish <= 1
  /\ sinkSt = "Dropped" => (outStream = "released" /\ Len(outFinish) = 1)
  /\ strSt = "Dropped" => (inStream = "released" /\ inFinish = 1)

\* The sink was dropped while its send was suspended.
C5_Witness ==
  /\ sinkSt = "Dropped"
  /\ outDropAt = "suspended"
  /\ Len(outFinish) = 1

\* ------------------------------------------------------------------ C6
\* C6 as stated: once the sink was closed, or a send failed, or the sink was
\* dropped, the stream is released and body-finish was invoked once.
C6_TeardownAtCloseErrorOrDrop ==
  (closes > 0 \/ sinkSt = "Empty" \/ sinkSt = "Dropped")
    => (outStream = "released" /\ outFinish = <<"no_trailers">>)

\* C6 amended: the stream is released and body-finish (no trailers) invoked
\* exactly once, when the sink is dropped; until then, also after a close or
\* a failed send, the stream is held and the body is not finished.
C6_TeardownAtDropOnly ==
  /\ sinkSt \in {"Value", "Future", "Empty"}
       => (outPair = "Some" /\ outStream = "held" /\ outFinish = <<>>)
  /\ sinkSt = "Dropped"
       => (outPair = "None" /\ outStream = "released" /\ outFinish = <<"no_trailers">>)

\* The sink was closed and then dropped: one teardown.
C6_Witness ==
  /\ closes > 0
  /\ sinkSt = "Dropped"
  /\ outDropAt = "closed"
  /\ outFinish = <<"no_trailers">>

\* ------------------------------------------------------------------ C7
IsFailed(r) == r.kind = "Err" /\ r.e # Closed

\* C7 as stated: a failing read is the last host read, and what the stream
\* yielded is the non-empty chunks, then one Err with the host's error, then
\* at most end-of-sequence.
C7_NoReadAfterFailure ==
  \A i \in 1..Len(reads) :
    IsFailed(reads[i]) =>
      /\ i = Len(reads)
      /\ \E k \in 1..Len(yielded) :
           /\ yielded[k] = ItemErr(reads[i].e.err)
           /\ \A j \in 1..Len(yielded) :
                /\ j < k => yielded[j].kind = "Chunk"
                /\ j > k => yielded[j].kind = "End"

\* ------------------------------------------------------------------ C8
RECURSIVE NonEmptyBufs(_)
NonEmptyBufs(rs) ==
  IF rs = <<>> THEN <<>>
  ELSE IF Head(rs).kind = "Ok" /\ Head(rs).buf # <<>>
         THEN <<Head(rs).buf>> \o NonEmptyBufs(Tail(rs))
         ELSE NonEmptyBufs(Tail(rs))

RECURSIVE ChunksOf(_)
ChunksOf(items) ==
  IF items = <<>> THEN <<>>
  ELSE IF Head(items).kind = "Chunk"
         THEN <<Head(items).buf>> \o ChunksOf(Tail(items))
         ELSE ChunksOf(Tail(items))

\* C8: while no host read has failed, the chunks the stream yielded are the
\* non-empty buffers read, unchanged and in order, none of them empty, with no
\* error element; and once the host reported closed the stream has ended.
C8_YieldsNonEmptyBuffers ==
  (\A i \in 1..Len(reads) : ~IsFailed(reads[i])) =>
    /\ ChunksOf(yielded) = NonEmptyBufs(reads)
    /\ \A k \in 1..Len(yielded) :
         /\ yielded[k].kind \in {"Chunk", "End"}
         /\ yielded[k].kind = "Chunk" => yielded[k].buf # <<>>
    /\ (reads # <<>> /\ reads[Len(reads)] = ErrRead(Closed))
         => (yielded # <<>> /\ yielded[Len(yielded)] = ItemEnd)
    /\ \A k \in 1..Len(yielded) :
         yielded[k].kind = "Chunk" =>
           Len(ChunksOf(SubSeq(yielded, 1, k))) = k

\* Two non-empty reads with an empty one between them, then closed.
C8_Witness ==
  /\ reads = <<OkBuf(<<1>>), OkBuf(<<>>), OkBuf(<<2>>), ErrRead(Closed)>>
  /\ yielded = <<ItemChunk(<<1>>), ItemChunk(<<2>>), ItemEnd>>

\* ------------------------------------------------------------------ C9
\* C9: after the stream yielded end-of-sequence, everything it yields is
\* end-of-sequence.
C9_EndedStaysEnded ==
  \A i, j \in 1..Len(yielded) :
    (i < j /\ yielded[i].kind = "End") => yielded[j] = ItemEnd

\* The stream was pulled again after it had ended.
C9_Witness ==
  /\ Len(yielded) >= 3
  /\ yielded[Len(yielded) - 1] = ItemEnd
  /\ yielded[Len(yielded)] = ItemEnd
  /\ yielded[1].kind = "Chunk"

\* ------------------------------------------------------------------ C10
\* C10: a send that check-write or the flush request ended with closed when
\* offset was the chunk's length returned success.
C10_ClosedAfterAllWritten ==
  (/\ sendEnd.call \in {"check_write", "flush"}
   /\ sendEnd.res = Closed
   /\ offset = Len(chunk))
    => sendRes = OkRes

\* check-write reported closed after the whole of a non-empty chunk was written.
C10_Witness ==
  /\ sendEnd = [call |-> "check_write", res |-> Closed]
  /\ offset = Len(chunk)
  /\ Len(chunk) > 0
  /\ sendRes = OkRes

\* C11: when the stream is reported closed, by check-write or by write, while
\* bytes of the chunk are still unwritten (offset < len), the send returns the
\* failure Closed, and no host write follows for that chunk.
C11_ClosedMidChunkFails ==
  /\ []((/\ sendEnd.res = Closed
         /\ sendEnd.call \in {"check_write", "write"}
         /\ offset < Len(chunk))
        => (/\ sendRes = Closed
            /\ sinkSt \in {"Empty", "Dropped"}
            /\ \A i \in 1..Len(writes) : writes[i].ok <=> i <= Len(writes) - (IF sendEnd.call = "write" THEN 1 ELSE 0)))
  /\ [][sendRes = Closed => writes' = writes]_vars

C11_Witness ==
  /\ sendEnd = [call |-> "write", res |-> Closed]
  /\ sendRes = Closed
  /\ 0 < offset /\ offset < Len(chunk)

RECURSIVE WrittenData(_)
WrittenData(ws) ==
  IF ws = <<>> THEN <<>>
  ELSE (IF Head(ws).ok THEN Head(ws).data ELSE <<>>) \o WrittenData(Tail(ws))

\* C13: within one sink the bytes handed to host writes are the concatenation
\* of the submitted chunks in submission order: the bytes written for the
\* current chunk are its first `offset` bytes, and they are the only bytes the
\* host accepted beyond those of the chunks reported complete; a chunk is
\* written only when every earlier send has completed, and is reported
\* complete only with offset = its length.
C13_ChunksWrittenInOrder ==
  /\ sends > 0 => WrittenData(writes) = SubSeq(chunk, 1, offset)
  /\ unreported = (IF sendRes = OkRes THEN 0 ELSE offset)
  /\ sendRes = OkRes => offset = Len(chunk)
  /\ completions \in {sends - 1, sends} \cap Nat
  /\ completions = sends <=> sendRes # NoRes \/ sends = 0

C13_Witness ==
  /\ sends = 2 /\ completions = 2
  /\ sendRes = OkRes
  /\ Len(chunk) > 0
  /\ Len(writes) >= 2
  /\ unreported = 0

\* C14: the request is submitted to the host exactly once, when the bridge is
\* constructed: once the bridge exists handle has been called once, before
\* any poll of its future and also if the future is dropped without a poll;
\* no poll calls handle.
C14_SubmitsOnceAtConstruction ==
  /\ [](handleCalls = IF brSt = "None" THEN 0 ELSE 1)
  /\ [][brPolls' # brPolls => handleCalls' = handleCalls /\ handleCalls = 1]_vars

C14_Witness ==
  /\ brSt = "Dropped"
  /\ brPolls = 0
  /\ handleCalls = 1

\* C15: when the submit call failed, every poll of the bridge's future
\* resolves at once with that error, subscribes to nothing and appends no
\* entry to the registry.
C15_FailedSubmitResolvesAtOnce ==
  (root = "bridge" /\ response.kind = "Err")
    => /\ brSubs = 0
       /\ WAKERS = <<>> /\ wakers = <<>>
       /\ userPc # "br_waiting"
       /\ brPolls > 0 => brLast = [subs |-> 0, regs |-> 0, out |-> BridgeReady(response)]

C15_Witness ==
  /\ response.kind = "Err"
  /\ brPolls >= 2
  /\ brLast.out = BridgeReady(response)

\* C16: when the submission succeeded, a poll that finds no result makes one
\* subscribe call, registers that one handle and returns not-ready; a poll
\* that finds the result subscribes to nothing and resolves with exactly the
\* result the host handed out.
C16_PollSubscribesOrResolves ==
  (response.kind = "Ok" /\ brPolls > 0 /\ abortWhy # "panic")
    => \/ /\ brLast = [subs |-> 1, regs |-> 1, out |-> BridgePending]
          /\ hostResp = "waiting"
          /\ brSubs = brPolls
          /\ hostVal = NoResp
       \/ /\ brLast = [subs |-> 0, regs |-> 0, out |-> BridgeReady(hostVal)]
          /\ hostVal \in HostResults
          /\ hostResp = "taken"
          /\ brSubs = brPolls - 1

C16_Witness ==
  /\ response.kind = "Ok"
  /\ brPolls = 2 /\ brSubs = 1
  /\ brLast.out = BridgeReady(hostVal)
  /\ hostVal \in {RespErr(c) : c \in ErrorCodes}

RECURSIVE Concat(_)
Concat(ss) == IF ss = <<>> THEN <<>> ELSE Head(ss) \o Concat(Tail(ss))

\* C17: into_body returns Ok with the concatenation, in order, of all the
\* chunks the stream yielded when the stream ends; at the first error element
\* it returns that error with nothing of the buffer, and no host read follows;
\* either way the body is finished exactly once, at the return.
C17_IntoBodyAggregates ==
  /\ [](root = "into_body" =>
         /\ ibRes.kind = "none" =>
              /\ inFinish = 0
              /\ \A i \in 1..Len(yielded) : yielded[i].kind = "Chunk"
              /\ body = Concat(ChunksOf(yielded))
         /\ ibRes.kind = "Ok" =>
              /\ yielded[Len(yielded)] = ItemEnd
              /\ \A i \in 1..(Len(yielded) - 1) : yielded[i].kind = "Chunk"
              /\ ibRes.body = Concat(ChunksOf(yielded))
         /\ ibRes.kind = "Err" =>
              /\ yielded[Len(yielded)] = ItemErr(ibRes.err)
              /\ \A i \in 1..(Len(yielded) - 1) : yielded[i].kind = "Chunk"
              /\ reads[Len(reads)] = ErrRead(LastOperationFailed(ibRes.err))
              /\ ibRes.body = <<>> /\ body = <<>>
         /\ ibRes.kind # "none" =>
              /\ inFinish = 1 /\ inPair = "None" /\ inStream = "released"
              /\ userPc = "returned")
  /\ [][ibRes.kind # "none" => reads' = reads /\ inFinish' = inFinish]_vars

C17_Witness ==
  /\ root = "into_body"
  /\ ibRes.kind = "Ok"
  /\ Len(ibRes.body) >= 2
  /\ ibRes.body[1] # ibRes.body[2]
  /\ inFinish = 1

\* C18: set_with_body sets the response on the outparam before any byte of
\* the body is written; the bytes written are the buffer's, in order, all of
\* them when it succeeds; the value it returns is the result of the sink's
\* send; and the body is finished exactly once, when it returns, with Ok or
\* with an error.
C18_SetThenSendThenFinish ==
  root = "set_with_body" =>
    /\ (writes # <<>> \/ unreported > 0 \/ sinkSt # "None") => outparam = "set"
    /\ sends <= 1
    /\ sends = 1 => WrittenData(writes) = SubSeq(chunk, 1, offset)
    /\ swbRes = NoRes => (outFinish = <<>> /\ userPc # "returned")
    /\ swbRes # NoRes =>
         /\ swbRes = sendRes
         /\ swbRes = OkRes => WrittenData(writes) = chunk
         /\ outFinish = <<"no_trailers">>
         /\ outPair = "None" /\ outStream = "released"
         /\ userPc = "returned"

C18_Witness ==
  /\ root = "set_with_body"
  /\ swbRes = OkRes
  /\ Len(chunk) = MaxLen
  /\ Len(writes) >= 2
  /\ outFinish = <<"no_trailers">>

\* C19: the registry lock is held only within a single append, drain or
\* rebuild: it is free while the root future is polled, while run is in the
\* blocking readiness call and while the wake signals are fired, so a
\* push_waker made inside a poll finds it free.
C19_LockOnlyAroundRegistryUpdates ==
  runPc \in {"inpoll", "polled", "blocked", "woken"} => lock = "free"

C19_Witness ==
  /\ polls >= 2
  /\ runPc = "polled"
  /\ regsThisPoll > 0
  /\ Len(WAKERS) > regsThisPoll
  /\ lock = "free"

\* C20: between two consecutive polls of the root future run makes exactly
\* one blocking readiness call, and it polls again only after that call
\* reported at least one registered handle ready.
C20_OneReadinessCallBetweenPolls ==
  /\ ioSince <= 1
  /\ runPc \in {"inpoll", "polled", "blocked"} => ioSince = 0
  /\ runPc = "woken" => (ioSince = 1 /\ firedLast >= 1)
  /\ (runPc = "poll" /\ polls > 0) => (ioSince = 1 /\ firedLast >= 1)

C20_Witness ==
  /\ runPc = "inpoll"
  /\ polls = 3
  /\ ioSince = 0

\* The k-th smallest element of a set of positions.
NthOf(S, k) == CHOOSE i \in S : Cardinality({j \in S : j < i}) = k - 1

\* C21: one iteration of the loop partitions the drained registry: the
\* entries at the positions the host reported ready are fired, once each, and
\* removed; the others are re-inserted unchanged and in their order; every
\* drained entry is in exactly one of the two.
C21_IterationPartitionsRegistry ==
  [][(runPc = "woken" /\ runPc' = "poll") =>
       LET F == {i \in 1..Len(wakers) : ready[i]}
           K == {i \in 1..Len(wakers) : ~ready[i]}
       IN  /\ Len(fired') = Cardinality(F)
           /\ \A k \in 1..Len(fired') : fired'[k] = wakers[NthOf(F, k)]
           /\ Len(WAKERS') = Cardinality(K)
           /\ \A k \in 1..Len(WAKERS') : WAKERS'[k] = wakers[NthOf(K, k)]
           /\ Len(fired') + Len(WAKERS') = Len(wakers)]_vars

C21_Witness ==
  /\ runPc = "poll"
  /\ Len(fired) >= 1
  /\ Len(WAKERS) >= 2
  /\ WAKERS[1] # WAKERS[2]

\* The wait handle an operation of the root program subscribes to.
ResourceOf(r) ==
  CASE r \in SinkRoots -> "out"
    [] r \in StreamRoots -> "in"
    [] r = "bridge" -> "response"
    [] OTHER -> "none"

\* C22: a poll of a sink send, of a stream pull or of the send bridge that
\* returns not-ready has appended exactly one entry, with the wait handle
\* subscribed from its resource, to the registry (for the bridge: with one
\* subscribe call); a step of a poll that does not return not-ready appends
\* none.
C22_NotReadyRegistersOnce ==
  [][(runPc = "inpoll" /\ ResourceOf(root) # "none") =>
       IF runPc' = "polled" /\ pollOut'.kind = "Pending"
         THEN /\ WAKERS' = Append(WAKERS, Entry(ResourceOf(root)))
              /\ regsThisPoll' = regsThisPoll + 1
              /\ regsThisPoll = 0
              /\ root = "bridge" => brSubs' = brSubs + 1
         ELSE /\ WAKERS' = WAKERS
              /\ regsThisPoll' = regsThisPoll
              /\ brSubs' = brSubs]_vars

C22_Witness ==
  /\ root = "sink"
  /\ runPc = "polled"
  /\ pollOut.kind = "Pending"
  /\ sends = 2
  /\ flushing
  /\ regsThisPoll = 1
  /\ WAKERS = <<Entry("out")>>

\* C23: an operation suspends only at these points: a sink send only when the
\* check-write just before reported zero capacity (with or without a flush
\* requested before); a stream pull only when the read just before returned
\* an empty buffer, the stream open; the send bridge only when the submission
\* succeeded and the host has no result.  Nonzero capacity, a non-empty read
\* and an error never suspend.
C23_SuspendsOnlyAtWaitPoints ==
  /\ (runPc = "polled" /\ pollOut.kind = "Pending" /\ root \in SinkRoots)
       => (userPc = "send_waiting" /\ lastCw = "zero" /\ hostOut = "open")
  /\ userPc = "send_waiting" => (lastCw = "zero" /\ sendRes = NoRes)
  /\ (runPc = "polled" /\ pollOut.kind = "Pending" /\ root \in StreamRoots)
       => userPc = "pulling"
  /\ userPc = "pulling"
       => (reads # <<>> /\ reads[Len(reads)] = OkBuf(<<>>) /\ hostIn = "open")
  /\ (runPc = "polled" /\ pollOut.kind = "Pending" /\ root = "bridge")
       => userPc = "br_waiting"
  /\ userPc = "br_waiting"
       => (response = SubmitOk /\ hostResp = "waiting" /\ brLast.out = BridgePending)

C23_Witness ==
  /\ root = "sink"
  /\ userPc = "send_waiting"
  /\ runPc = "polled"
  /\ flushing
  /\ offset = Len(chunk) /\ offset > 0
  /\ lastCw = "zero"

\* C24 as stated: a send reports success only after offset = chunk length and
\* a flush request for the chunk was issued and succeeded.
C24_SuccessOnlyAfterFlushSucceeded ==
  (sends > 0 /\ sendRes = OkRes)
    => (offset = Len(chunk) /\ flushes = 1 /\ flushing)

\* C24 amended: a send reports success only after offset = chunk length, and
\* then either a flush request for the chunk was issued and accepted and a
\* later check-write reported capacity, or the host reported closed, at the
\* flush request or at a check-write.
C24_SuccessAfterFlushOrClosed ==
  (sends > 0 /\ sendRes = OkRes)
    => /\ offset = Len(chunk)
       /\ \/ /\ flushing /\ flushes = 1
             /\ sendEnd = [call |-> "check_write", res |-> OkRes]
          \/ /\ ~flushing /\ flushes = 1
             /\ sendEnd = [call |-> "flush", res |-> Closed]
          \/ /\ flushes \in {0, 1} /\ (flushing <=> flushes = 1)
             /\ sendEnd = [call |-> "check_write", res |-> Closed]

C24_Witness ==
  /\ sendRes = OkRes
  /\ offset = Len(chunk) /\ offset > 0
  /\ flushes = 0
  /\ sendEnd = [call |-> "check_write", res |-> Closed]

\* C25 as stated: once the flush request returned success (or closed) the
\* chunk is complete, with no further capacity check and no suspension.
C25_FlushSuccessCompletes ==
  (sends > 0 /\ flushes = 1 /\ (flushing \/ sendEnd = [call |-> "flush", res |-> Closed]))
    => sendRes = OkRes

\* C25 amended: the flush request is issued with offset = chunk length and
\* the flag clear; if it returns closed the chunk is complete at that point;
\* if it returns success the send sets the flag and goes back to the
\* capacity check, where it may suspend, and it completes at the first
\* check-write that reports capacity or closed; another error fails it.
C25_FlushThenCapacityCheck ==
  /\ [][(sends' = sends /\ flushes' # flushes) =>
         /\ flushes' = flushes + 1 /\ flushes = 0
         /\ offset = Len(chunk) /\ ~flushing /\ offset' = offset
         /\ IF flushing'
              THEN sendRes' = NoRes /\ userPc' = "send_running"
              ELSE /\ sendEnd'.call = "flush"
                   /\ sendEnd'.res \in StreamErrors
                   /\ sendRes' = IF sendEnd'.res = Closed THEN OkRes ELSE sendEnd'.res
                   /\ userPc' = "idle"]_vars
  /\ [][(sends' = sends /\ flushing /\ sendRes = NoRes /\ sendRes' # NoRes) =>
         /\ sendEnd'.call = "check_write"
         /\ sendRes' = IF sendEnd'.res = Closed THEN OkRes ELSE sendEnd'.res]_vars
  /\ [](userPc = "send_waiting" /\ flushing => flushes = 1 /\ offset = Len(chunk))

C25_Witness ==
  /\ flushing /\ flushes = 1
  /\ userPc = "send_waiting"
  /\ runPc = "blocked"
  /\ Len(chunk) = 2

\* C26: within one send, offset starts at 0, never decreases, changes only by
\* the byte count of a host write that succeeded, and stays within
\* 0..chunk length; a failed write, a check-write and a flush leave it as it is.
C26_OffsetOnlyAdvancesByWrites ==
  /\ [](0 <= offset /\ offset <= Len(chunk))
  /\ [][sends' # sends => (offset' = 0 /\ writes' = <<>>)]_vars
  /\ [][sends' = sends =>
         IF writes' # writes
           THEN /\ Len(writes') = Len(writes) + 1
                /\ LET w == writes'[Len(writes')]
                   IN  /\ w.off = offset
                       /\ offset' = IF w.ok THEN offset + Len(w.data) ELSE offset
           ELSE offset' = offset]_vars

C26_Witness ==
  /\ offset = MaxLen
  /\ Len(writes) = 2
  /\ writes[1].ok /\ writes[2].ok
  /\ Len(writes[1].data) = 2

\* C27: a failure the host reports is surfaced as it is and never retried: an
\* error of check-write, write or flush, other than closed with the whole
\* chunk written, is what the send returns, at once, and no host call of the
\* send follows; a failed read is yielded as an error element with the
\* host's error.
C27_FailuresSurfaceUnchanged ==
  /\ []((sendEnd.res \in StreamErrors
          /\ ~(sendEnd.res = Closed /\ offset = Len(chunk)))
        => (sendRes = sendEnd.res /\ sinkSt \in {"Empty", "Dropped"}))
  /\ [][(sendRes = NoRes /\ sendEnd'.res \in StreamErrors) =>
         (sendRes' # NoRes /\ userPc' = "idle")]_vars
  /\ [][(sendRes \in StreamErrors) =>
         (writes' = writes /\ flushes' = flushes /\ sendEnd' = sendEnd)]_vars
  /\ [][(reads' # reads /\ IsFailed(reads'[Len(reads')])) =>
         yielded' = Append(yielded, ItemErr(reads'[Len(reads')].e.err))]_vars

C27_Witness ==
  /\ sendEnd = [call |-> "flush", res |-> LastOperationFailed("e1")]
  /\ sendRes = LastOperationFailed("e1")
  /\ sinkSt = "Empty"

\* C28: dropping a sink or an input stream after one of its operations failed
\* releases the stream and calls body-finish exactly once; an error the host
\* returns to body-finish is discarded: the drop aborts nothing, changes no
\* send's result and the dropping task goes on or returns its own value.
C28_DropAfterFailureFinishesOnce ==
  /\ []((sinkSt = "Dropped" /\ sendRes \in StreamErrors)
        => (outPair = "None" /\ outStream = "released"
            /\ outFinish = <<"no_trailers">>))
  /\ []((strSt = "Dropped" /\ \E i \in 1..Len(yielded) : yielded[i].kind = "Err")
        => (inPair = "None" /\ inStream = "released" /\ inFinish = 1))
  /\ [][(outFinish' # outFinish) =>
         /\ outFinishRes' \in FinishResults
         /\ abortWhy' = abortWhy /\ runPc' # "aborted"
         /\ sendRes' = sendRes
         /\ userPc' \in {"idle", "returned"}
         /\ (userPc' = "returned" => pollOut' = Ready("v1"))
         /\ (root = "set_with_body" => swbRes' = sendRes)]_vars
  /\ [](outFinishRes = "Err" => abortWhy = "none")

C28_Witness ==
  /\ sinkSt = "Dropped"
  /\ sendRes = LastOperationFailed("e2")
  /\ outDropAt = "failed"
  /\ outFinishRes = "Err"
  /\ outStream = "released"
  /\ runPc = "done"
  /\ result = "v1"

\* The operations of the root program that are suspended.
SuspendedOps ==
  IF root = "two_streams"
    THEN Cardinality({i \in 1..2 : pullSt[i] = "waiting"})
    ELSE IF pollOut.kind = "Pending" THEN 1 ELSE 0

\* C29: at every blocking readiness call the registry run waits on holds at
\* most one entry per suspended operation of the program (the abstract future,
\* whose operations are not told apart, is left out).
C29_OneEntryPerSuspendedOperation ==
  (runPc = "blocked" /\ root # "abstract") => Len(wakers) <= SuspendedOps

\* The entries of the registry, stored or drained, with wait handle p.
EntriesOf(p) ==
  {i \in 1..Len(WAKERS) : WAKERS[i].pollable = p}
    \cup {Len(WAKERS) + i : i \in {j \in 1..Len(wakers) : wakers[j].pollable = p}}

\* C30: once a stream handle is released, no entry of the registry holds a
\* wait handle subscribed from that stream.
C30_NoEntryPastItsStream ==
  /\ outStream = "released" => EntriesOf("out") = {}
  /\ inStream = "released" => EntriesOf("in") = {}
  /\ \A i \in 1..2 : inStreams[i] = "released" => EntriesOf(InPollable(i)) = {}

\* C31: in http::send with a buffered body the request is submitted before
\* the first body byte is written; the response future is polled only once
\* the sink was dropped, its stream released and its body finished once; and
\* when writing the body fails, send returns the Io error of the write and
\* the response future is never polled.
C31_SubmitThenBodyThenResponse ==
  root = "http_send" =>
    /\ (writes # <<>> \/ sinkSt # "None") => (handleCalls = 1 /\ brSt # "None")
    /\ brPolls > 0
         => (sinkSt = "Dropped" /\ sendRes = OkRes /\ outStream = "released"
             /\ outFinish = <<"no_trailers">>)
    /\ sendRes \in StreamErrors => brPolls = 0
    /\ (userPc = "returned" /\ sendRes \in StreamErrors)
         => (hsRes = SendErrIo(sendRes) /\ brPolls = 0 /\ brSubs = 0
             /\ outFinish = <<"no_trailers">>)
    /\ hsRes.kind = "Io" => sendRes \in StreamErrors

C31_Witness ==
  /\ root = "http_send"
  /\ hsRes = SendOk("resp1")
  /\ Len(writes) = 2
  /\ brPolls = 2
  /\ outFinish = <<"no_trailers">>
  /\ runPc = "done"

\* C32: in the teardown of a sink or of an input stream the stream handle is
\* released before body-finish is called on the paired body (finish finds
\* the stream released), and the sink's body-finish is called with no
\* trailers.
C32_StreamReleasedBeforeFinish ==
  /\ outFinish # <<>>
       => (outFinishSaw = "released" /\ outStream = "released"
           /\ \A i \in 1..Len(outFinish) : outFinish[i] = "no_trailers")
  /\ outFinish = <<>> => outFinishSaw = "none"
  /\ inFinish > 0 => (inFinishSaw = "released" /\ inStream = "released")
  /\ inFinish = 0 => inFinishSaw = "none"

C32_Witness ==
  /\ root = "sink"
  /\ outDropAt = "suspended"
  /\ outFinish = <<"no_trailers">>
  /\ outFinishSaw = "released"
  /\ outFinishRes = "Ok"

\* The entries of a sequence of entries with wait handle p.
CountOf(p, es) == Cardinality({i \in 1..Len(es) : es[i].pollable = p})

\* The entries whose wake signal a step fires.
FiredBy(pc, pc2, f2) == IF pc = "woken" /\ pc2 = "poll" THEN f2 ELSE <<>>

\* C33: no registration is discarded: in every step, for every wait handle,
\* the entries with it in the registry (stored, or drained by run) decrease
\* at most by the entries with it whose wake signal the step fires.
C33_NoRegistrationDiscarded ==
  [][\A p \in AbstractPollables \cup {OtherPollable, "in", "out", "response", "in1", "in2"} :
       CountOf(p, WAKERS') + CountOf(p, wakers') + CountOf(p, FiredBy(runPc, runPc', fired'))
         >= CountOf(p, WAKERS) + CountOf(p, wakers)]_vars

\* C34: when run has returned, the registry is empty: run's drained entries
\* and the stored registry hold nothing.
C34_RegistryEmptyAtReturn ==
  runPc = "done" => (WAKERS = <<>> /\ wakers = <<>>)

\* C35: for each chunk the sink issues at most one flush request, issues it
\* only when offset equals the chunk length, and issues no host write for
\* that chunk after the flush request.
C35_OneFlushAfterAllWrites ==
  /\ [](flushes <= 1)
  /\ [][(sends' = sends /\ flushes' # flushes) =>
         (flushes = 0 /\ flushes' = 1 /\ offset = Len(chunk)
          /\ WrittenData(writes) = chunk /\ writes' = writes)]_vars
  /\ [][(sends' = sends /\ flushes >= 1) =>
         (writes' = writes /\ flushes' = flushes /\ offset' = offset)]_vars

C35_Witness ==
  /\ sends = 2
  /\ sendRes = OkRes
  /\ flushes = 1
  /\ flushing
  /\ Len(writes) = 2
  /\ Len(chunk) = MaxLen

====
